---- MODULE Spec2Model ----
(***************************************************************************)
(* State-machine model of acplotoo.Geoplot (src/acplotoo/geoplot.py).      *)
(*                                                                         *)
(* A state is the set of fields of one Geoplot object plus the heap of the *)
(* two-element limit lists its caller has handed to imshow_projected (the  *)
(* object stores references to them, so their identity matters), plus a    *)
(* record of the last public call: its arguments (calls) and the sequence  *)
(* of observable effects it had (log).  Each public method is one action.  *)
(*                                                                         *)
(* Representation of Python values                                         *)
(*   None (array or limit argument) : <<>>                                 *)
(*   None (color / path argument)   : "None"                               *)
(*   None (reference to a list)     : 0                                    *)
(*   numpy array of integers        : non-empty sequence of integers       *)
(*   dict of keyword arguments      : function from a set of keys to       *)
(*                                    tagged values <<tag, value>>         *)
(*   list [lo, hi] on the heap      : heap[ref] = <<lo, hi>>               *)
(***************************************************************************)
EXTENDS Integers, Sequences, FiniteSets, TLC

\* Number of public calls a caller makes after construction, per specification.
MaxCalls == 3
MaxImages == 3
MaxGridCalls == 3
MaxTensorCalls == 2

\* Largest number of samples in a tensor-field array.
MaxLen == 2

VARIABLES
    gshhg_path,        \* self._gshhg_path
    user_xlim,         \* self._user_xlim
    user_ylim,         \* self._user_ylim
    xlim,              \* self._xlim
    ylim,              \* self._ylim
    data_xlim,         \* self._data_xlim : reference into heap, 0 for None
    data_ylim,         \* self._data_ylim : reference into heap, 0 for None
    heap,              \* the limit lists passed to imshow_projected so far
    scheduled,         \* self._scheduled
    water_color,       \* self._water_color
    land_color,        \* self._land_color
    grid_on,           \* self._grid_on
    grid_constant,     \* self._grid_constant
    grid_kwargs,       \* self._grid_kwargs
    grid_anchor,       \* self._grid_anchor
    grid_kwargs_base,  \* self._grid_kwargs_base
    update_grid,       \* self._update_grid
    dirty,             \* set by the schedule callback
    grid_prev,         \* style options of the grid() call before the last one
    ncalls,            \* the caller: number of public calls made so far
    calls,             \* the last public call and the call it delegated to
    log                \* effects of the last public call, in order

limvars  == <<user_xlim, user_ylim, xlim, ylim>>
datavars == <<data_xlim, data_ylim, heap>>
colvars  == <<water_color, land_color>>
gridvars == <<grid_on, grid_constant, grid_kwargs, grid_anchor, update_grid, grid_prev>>
fixvars  == <<gshhg_path, grid_kwargs_base>>

\* Every field of the plot object (and the lists it references).
plot == <<gshhg_path, user_xlim, user_ylim, xlim, ylim, data_xlim, data_ylim,
          heap, scheduled, water_color, land_color, grid_on, grid_constant,
          grid_kwargs, grid_anchor, grid_kwargs_base, update_grid, dirty>>

vars == <<plot, grid_prev, ncalls, calls, log>>

----------------------------------------------------------------------------
(* Python values *)

NoneV == <<>>
IsNone(v) == Len(v) = 0

Str(s) == <<"str", s>>
Flt(s) == <<"float", s>>
Arr(a) == <<"array", a>>

EmptyKw == <<>>
Put(d, k, v) == [x \in (DOMAIN d) \cup {k} |-> IF x = k THEN v ELSE d[x]]
Merge(a, b) == [x \in (DOMAIN a) \cup (DOMAIN b) |-> IF x \in DOMAIN b THEN b[x] ELSE a[x]]

Last(s) == s[Len(s)]

\* One public (or delegated) call: the method and its arguments as passed.
\* vals holds the contents, at call time, of the lists passed by reference.
Call(op, args, vals) == [op |-> op, args |-> args, vals |-> vals]

EvCallback == <<"callback", "_schedule_callback">>
EvAppend(kind) == <<"append", kind>>
EvRaise(exc) == <<"raise", exc>>

RuntimeErrorGshhg == <<"RuntimeError", "GSHHG not loaded!">>
ValueErrorPairs == <<"ValueError", "Exactly one of the pairs (lon,lat) or (x,y) have to be given!">>
ValueErrorTensor == <<"ValueError", "Tensor has to be given!">>
NotImplemented == <<"NotImplementedError", "Geoplot.streamplot() not implemented yet.">>

EvWarn(category) == <<"warn", category>>

Raised(l) == \E i \in 1..Len(l) : l[i][1] = "raise"
Count(l, ev) == Cardinality({i \in 1..Len(l) : l[i] = ev})

----------------------------------------------------------------------------
(* Shared steps of the methods *)

\* self._schedule_callback(): hook of the base class; marks the plot dirty.
ScheduleCallback(prelog) ==
    /\ dirty' = TRUE
    /\ log' = Append(prelog, EvCallback)

\* A raise statement: the exception leaves the method, nothing else happens.
Raise(prelog, exc) ==
    /\ log' = Append(prelog, EvRaise(exc))
    /\ UNCHANGED <<plot, grid_prev>>

Entry(kind, payload) == <<kind, FALSE, payload>>

\* Variant: the new entry is put in front of the list.
Extend_Prepend(sched, kind, payload) == <<Entry(kind, payload)>> \o sched

\* self._scheduled += [[kind, False, payload]]
Extend(sched, kind, payload) == Append(sched, Entry(kind, payload))

\* self._scheduled += [[kind, False, payload]]; self._schedule_callback()
Schedule(kind, payload, prelog) ==
    /\ scheduled' = Extend(scheduled, kind, payload)
    /\ ScheduleCallback(Append(prelog, EvAppend(kind)))

----------------------------------------------------------------------------
(* Construction *)

\* Constructor arguments <<gshhg_path, limits_xy>>.
InitArgs == {<<"None", NoneV>>, <<"/data/gshhg", << <<0, 10>>, <<0, 5>> >> >>}
GridBases == {[k \in {"color"} |-> Str("gray")],
              [k \in {"color", "linewidth"} |->
                   IF k = "color" THEN Str("gray") ELSE Flt("0.8")]}

\* Fields set by GeoplotBase.__init__ before Geoplot.__init__ continues.
BaseInit(path, wc, lc) ==
    /\ scheduled = <<>>
    /\ data_xlim = 0
    /\ data_ylim = 0
    /\ water_color = wc
    /\ land_color = lc
    /\ grid_on = TRUE
    /\ grid_constant = 1
    /\ grid_anchor = <<0, 0>>
    /\ grid_kwargs_base \in GridBases
    /\ grid_kwargs = grid_kwargs_base
    /\ update_grid = FALSE

\* Geoplot.__init__(ax, projection, limits_xy, gshhg_path, ...)
Init ==
    \E a \in InitArgs :
      LET path == a[1]
          limits_xy == a[2]
      IN
        /\ BaseInit(path, "lightblue", "white")
        /\ gshhg_path = path
        /\ heap = <<>>
        /\ grid_prev = <<>>
        /\ ncalls = 0
        /\ calls = << Call("__init__", <<limits_xy, path>>, <<>>) >>
        /\ IF ~IsNone(limits_xy)
           THEN /\ user_xlim = limits_xy[1]
                /\ user_ylim = limits_xy[2]
                /\ xlim = limits_xy[1]
                /\ ylim = limits_xy[2]
                /\ dirty = TRUE
                /\ log = <<EvCallback>>
           ELSE /\ user_xlim = NoneV
                /\ user_ylim = NoneV
                /\ xlim = NoneV
                /\ ylim = NoneV
                /\ dirty = FALSE
                /\ log = <<>>

----------------------------------------------------------------------------
(* set_xlim, set_ylim *)

SetXlim(lim) ==
    /\ user_xlim' = lim
    /\ ScheduleCallback(<<>>)
    /\ calls' = << Call("set_xlim", <<lim>>, <<>>) >>
    /\ UNCHANGED <<user_ylim, xlim, ylim, datavars, scheduled, colvars, gridvars, fixvars>>

SetYlim(lim) ==
    /\ user_ylim' = lim
    /\ ScheduleCallback(<<>>)
    /\ calls' = << Call("set_ylim", <<lim>>, <<>>) >>
    /\ UNCHANGED <<user_xlim, xlim, ylim, datavars, scheduled, colvars, gridvars, fixvars>>

----------------------------------------------------------------------------
(* coastline *)

\* Variant: the test is inverted.
GshhgMissing_Inverted(path) == path # "None"

\* if self._gshhg_path is None
GshhgMissing(path) == path = "None"

\* if color is not None: self._color = color
Override(current, given) == IF given # "None" THEN given ELSE current

\* Variant: the colors are stored before the coastline data is checked.
Coastline_ColorsFirst(level, wc, lc, zorder, kwargs) ==
    /\ calls' = << Call("coastline", <<level, wc, lc, zorder, kwargs>>, <<>>) >>
    /\ water_color' = Override(water_color, wc)
    /\ land_color' = Override(land_color, lc)
    /\ IF GshhgMissing(gshhg_path)
       THEN /\ log' = <<EvRaise(RuntimeErrorGshhg)>>
            /\ UNCHANGED <<limvars, datavars, gridvars, fixvars, scheduled, dirty>>
       ELSE /\ Schedule("coastline", <<level, zorder, kwargs>>, <<>>)
            /\ UNCHANGED <<limvars, datavars, gridvars, fixvars>>

Coastline(level, wc, lc, zorder, kwargs) ==
    /\ calls' = << Call("coastline", <<level, wc, lc, zorder, kwargs>>, <<>>) >>
    /\ IF GshhgMissing(gshhg_path)
       THEN Raise(<<>>, RuntimeErrorGshhg)
       ELSE /\ water_color' = Override(water_color, wc)
            /\ land_color' = Override(land_color, lc)
            /\ Schedule("coastline", <<level, zorder, kwargs>>, <<>>)
            /\ UNCHANGED <<limvars, datavars, gridvars, fixvars>>

----------------------------------------------------------------------------
(* grid *)

\* {**self._grid_kwargs_base, **kwargs}, then the default line width
GridStyle(base, kwargs) ==
    LET merged == Merge(base, kwargs)
    IN  IF "linewidth" \notin DOMAIN kwargs
        THEN Put(merged, "linewidth", Flt("0.5"))
        ELSE merged

\* Variant: the style options are merged into the current ones.
GridEffect_Update(on, constant, anchor_lon, anchor_lat, kwargs) ==
    /\ grid_on' = on
    /\ grid_constant' = constant
    /\ grid_kwargs' = GridStyle(Merge(grid_kwargs_base, grid_kwargs), kwargs)
    /\ grid_anchor' = <<anchor_lon, anchor_lat>>
    /\ update_grid' = TRUE
    /\ ScheduleCallback(<<>>)

GridEffect(on, constant, anchor_lon, anchor_lat, kwargs) ==
    /\ grid_on' = on
    /\ grid_constant' = constant
    /\ grid_kwargs' = GridStyle(grid_kwargs_base, kwargs)
    /\ grid_anchor' = <<anchor_lon, anchor_lat>>
    /\ update_grid' = TRUE
    /\ ScheduleCallback(<<>>)

Grid(on, constant, anchor_lon, anchor_lat, kwargs) ==
    /\ GridEffect(on, constant, anchor_lon, anchor_lat, kwargs)
    /\ grid_prev' = IF calls[1].op = "grid" THEN <<calls[1].args[5]>> ELSE <<>>
    /\ calls' = << Call("grid", <<on, constant, anchor_lon, anchor_lat, kwargs>>, <<>>) >>
    /\ UNCHANGED <<limvars, datavars, scheduled, colvars, fixvars>>

----------------------------------------------------------------------------
(* scatter, quiver, streamplot_projected, streamplot *)

Scatter(lon, lat, kwargs) ==
    /\ calls' = << Call("scatter", <<lon, lat, kwargs>>, <<>>) >>
    /\ Schedule("scatter", <<lon, lat, kwargs>>, <<>>)
    /\ UNCHANGED <<limvars, datavars, colvars, gridvars, fixvars>>

Quiver(lon, lat, u, v, c, kwargs) ==
    /\ calls' = << Call("quiver", <<lon, lat, u, v, c, kwargs>>, <<>>) >>
    /\ Schedule("quiver", <<lon, lat, u, v, c, kwargs>>, <<>>)
    /\ UNCHANGED <<limvars, datavars, colvars, gridvars, fixvars>>

StreamplotProjected(x, y, u, v, kwargs) ==
    /\ calls' = << Call("streamplot_projected", <<x, y, u, v, kwargs>>, <<>>) >>
    /\ Schedule("streamplot", <<x, y, u, v, kwargs>>, <<>>)
    /\ UNCHANGED <<limvars, datavars, colvars, gridvars, fixvars>>

\* Variant: the method returns without raising.
StreamplotBody_Pass(prelog) ==
    /\ log' = prelog
    /\ UNCHANGED <<plot, grid_prev>>

\* raise NotImplementedError(...)
StreamplotBody(prelog) == Raise(prelog, NotImplemented)

Streamplot(lon, lat, u, v, kwargs) ==
    /\ calls' = << Call("streamplot", <<lon, lat, u, v, kwargs>>, <<>>) >>
    /\ StreamplotBody(<<>>)

----------------------------------------------------------------------------
(* tensorfield_symmetric_2d *)

\* Variant: the (x, y) pair is not checked for completeness.
CoordPairInvalid_NoYCheck(lon, lat, x, y) ==
    \/ IsNone(lon) = IsNone(x)
    \/ IsNone(lon) # IsNone(lat)

\* (lon is None) == (x is None) or (lon is None) != (lat is None)
\*     or (x is None) != (y is None)
CoordPairInvalid(lon, lat, x, y) ==
    \/ IsNone(lon) = IsNone(x)
    \/ IsNone(lon) # IsNone(lat)
    \/ IsNone(x) # IsNone(y)

\* t1 is None or t2 is None or angle is None
TensorMissing(t1, t2, angle) == IsNone(t1) \/ IsNone(t2) \/ IsNone(angle)

ArrMin(a) == CHOOSE m \in {a[i] : i \in DOMAIN a} : \A i \in DOMAIN a : m <= a[i]
ArrMax(a) == CHOOSE m \in {a[i] : i \in DOMAIN a} : \A i \in DOMAIN a : m >= a[i]

\* width = t1 - t2 (elementwise)
Width(t1, t2) == [i \in DOMAIN t1 |-> t1[i] - t2[i]]

\* np.sin(np.deg2rad(a)) and np.cos(np.deg2rad(a)) in IEEE double precision
SinDeg(a) == CASE a = 0 -> "0.0" [] a = 90 -> "1.0"
CosDeg(a) == CASE a = 0 -> "1.0" [] a = 90 -> "6.123233995736766e-17"

\* Variant: cosine where the sine belongs.
DirU_Cosine(angle) == [i \in DOMAIN angle |-> CosDeg(angle[i])]

\* u = np.sin(np.deg2rad(angle)); v = np.cos(np.deg2rad(angle))
DirU(angle) == [i \in DOMAIN angle |-> SinDeg(angle[i])]
DirV(angle) == [i \in DOMAIN angle |-> CosDeg(angle[i])]

\* linewidth * (width - width.min()) / (width.max() - width.min()), each
\* element kept as the fraction <<numerator, denominator>>: <<0, 0>> is the
\* NaN that 0/0 gives.
NormWidth(linewidth, width) ==
    [i \in DOMAIN width |->
        <<linewidth * (width[i] - ArrMin(width)), ArrMax(width) - ArrMin(width)>>]

\* Variant: a color passed by the caller is kept.
KwDict_KeepColor(kwargs, linewidth, width, color) ==
    LET d == Put(kwargs, "linewidth", Arr(NormWidth(linewidth, width)))
    IN  IF "color" \in DOMAIN kwargs THEN d ELSE Put(d, "color", Arr(color))

\* kwdict = dict(kwargs); kwdict["linewidth"] = ...; kwdict["color"] = color
KwDict(kwargs, linewidth, width, color) ==
    Put(Put(kwargs, "linewidth", Arr(NormWidth(linewidth, width))), "color", Arr(color))

\* warn(...) for an overridden color; numpy's RuntimeWarning for 0/0
TensorWarnings(kwargs, width) ==
    (IF "color" \in DOMAIN kwargs THEN <<EvWarn("UserWarning")>> ELSE <<>>)
    \o (IF ArrMax(width) = ArrMin(width) THEN <<EvWarn("RuntimeWarning")>> ELSE <<>>)

Tensorfield(lon, lat, t1, t2, angle, x, y, linewidth, kwargs) ==
    LET c == Call("tensorfield_symmetric_2d",
                  <<lon, lat, t1, t2, angle, x, y, linewidth, kwargs>>, <<>>)
    IN  IF CoordPairInvalid(lon, lat, x, y)
        THEN /\ calls' = <<c>>
             /\ Raise(<<>>, ValueErrorPairs)
        ELSE IF TensorMissing(t1, t2, angle)
        THEN /\ calls' = <<c>>
             /\ Raise(<<>>, ValueErrorTensor)
        ELSE LET color  == t1
                 width  == Width(t1, t2)
                 u      == DirU(angle)
                 v      == DirV(angle)
                 kwdict == KwDict(kwargs, linewidth, width, color)
                 warned == TensorWarnings(kwargs, width)
             IN  IF ~IsNone(lon)
                 THEN /\ calls' = <<c, Call("streamplot", <<lon, lat, u, v, kwargs>>, <<>>)>>
                      /\ StreamplotBody(warned)
                 ELSE /\ calls' = <<c, Call("streamplot_projected",
                                            <<x, y, u, v, kwdict>>, <<>>)>>
                      /\ Schedule("streamplot", <<x, y, u, v, kwdict>>, warned)
                      /\ UNCHANGED <<limvars, datavars, colvars, gridvars, fixvars>>

----------------------------------------------------------------------------
(* imshow_projected *)

\* if lim[0] < self._data_lim[0]: self._data_lim[0] = lim[0]
WidenLo(h, d, r) == IF h[r][1] < h[d][1] THEN [h EXCEPT ![d][1] = h[r][1]] ELSE h

\* if lim[1] > self._data_lim[1]: self._data_lim[1] = lim[1]
WidenHi(h, d, r) == IF h[r][2] > h[d][2] THEN [h EXCEPT ![d][2] = h[r][2]] ELSE h

\* The heap after one axis of the data-limit check: the list self._data_lim
\* refers to (d) is updated in place from the list passed in (r).
CheckLimit(h, d, r) == IF d = 0 THEN h ELSE WidenHi(WidenLo(h, d, r), d, r)

\* What self._data_lim refers to after the check.
LimitRef(d, r) == IF d = 0 THEN r ELSE d

\* h0 is the heap at the moment of the call: the lists that existed before
\* plus the ones the caller created for this call; xr and yr refer into it.
ImshowProjected(z, xr, yr, kwargs, h0) ==
    /\ LET hx == CheckLimit(h0, data_xlim, xr)
           hy == CheckLimit(hx, data_ylim, yr)
       IN  /\ data_xlim' = LimitRef(data_xlim, xr)
           /\ data_ylim' = LimitRef(data_ylim, yr)
           /\ heap' = hy
    /\ calls' = << Call("imshow_projected", <<z, xr, yr, kwargs>>, <<h0[xr], h0[yr]>>) >>
    /\ Schedule("imshow", <<z, xr, yr, kwargs>>, <<>>)
    /\ UNCHANGED <<limvars, colvars, gridvars, fixvars>>

----------------------------------------------------------------------------
(* The caller: argument values *)

StyleKw == {EmptyKw, [k \in {"color"} |-> Str("red")]}
Coords == {<<0>>, <<10, 20>>}
ViewLims == {<<0, 10>>, <<-5, 8>>}

\* <<water_color, land_color>> arguments of coastline()
ColorArgs == {<<"None", "None">>, <<"navy", "None">>, <<"None", "tan">>}

\* Limit lists [lo, hi] a caller passes to imshow_projected.
LimLists == {<<0, 10>>, <<0, 5>>, <<-5, 3>>, <<2, 8>>}

\* The lists a caller creates for one imshow_projected call: none (it passes
\* lists it already holds), one, or two.
NewLists(L) == {<<>>} \cup {<<a>> : a \in L} \cup (L \X L)

\* A caller passes each list it has just created.
UsesNew(n, k, xr, yr) ==
    CASE k = 0 -> TRUE
      [] k = 1 -> xr = n + 1 \/ yr = n + 1
      [] k = 2 -> xr = n + 1 /\ yr = n + 2

\* <<on, grid_constant, anchor_lon, anchor_lat>> arguments of grid()
GridArgs == {<<TRUE, 1, 0, 0>>, <<FALSE, 5, 10, 50>>}
GridKw == {EmptyKw,
           [k \in {"color"} |-> Str("red")],
           [k \in {"linewidth"} |-> Flt("2.0")],
           [k \in {"linestyle"} |-> Str("--")],
           [k \in {"color", "linewidth"} |-> IF k = "color" THEN Str("red") ELSE Flt("2.0")]}

Const(n, c) == [i \in 1..n |-> c]
Ramp(n, c) == [i \in 1..n |-> c * i]
Turns(n) == [i \in 1..n |-> 90 * ((i - 1) % 2)]
Opt(v) == {NoneV, v}

\* Complete tensor descriptions <<t1, t2, angle>> of n samples: one with all
\* samples alike, one with differing samples.
Tensors(n) == {<<Const(n, 2), Const(n, 1), Const(n, 0)>>,
               <<Ramp(n, 2), Const(n, 1), Turns(n)>>}

\* A call of one public method, made by the caller.
Made(A) == A /\ ncalls' = ncalls + 1

CallSetXlim(L) == \E lim \in L : Made(SetXlim(lim))
CallSetYlim(L) == \E lim \in L : Made(SetYlim(lim))
CallCoastline(C, K) ==
    \E c \in C, kwargs \in K : Made(Coastline("i", c[1], c[2], 0, kwargs))
CallGrid(G, K) ==
    \E g \in G, kwargs \in K : Made(Grid(g[1], g[2], g[3], g[4], kwargs))
CallScatter(P, K) == \E lon \in P, kwargs \in K : Made(Scatter(lon, lon, kwargs))
CallQuiver(P, K) ==
    \E lon \in P, c \in Opt(<<1>>), kwargs \in K :
        Made(Quiver(lon, lon, <<1>>, <<1>>, c, kwargs))
CallStreamplotProjected(P, K) ==
    \E x \in P, kwargs \in K :
        Made(StreamplotProjected(x, x, <<"0.0">>, <<"1.0">>, kwargs))
CallStreamplot(P, K) ==
    \E lon \in P, kwargs \in K :
        Made(Streamplot(lon, lon, <<"0.0">>, <<"1.0">>, kwargs))

\* Presence/absence combinations of the seven optional arguments (lon, lat,
\* t1, t2, angle, x, y), around the one-sample tensor: p[i] says whether
\* the i-th is passed.
AllPresence == [1..7 -> BOOLEAN]
Given(p, i, v) == IF p[i] THEN v ELSE NoneV
CallTensorfieldPresence(P, K) ==
    \E p \in P, kwargs \in K :
        Made(Tensorfield(Given(p, 1, <<0>>), Given(p, 2, <<0>>), Given(p, 3, <<2>>),
                         Given(p, 4, <<1>>), Given(p, 5, <<0>>), Given(p, 6, <<0>>),
                         Given(p, 7, <<0>>), 1, kwargs))

\* Complete tensors of up to maxlen samples with one coordinate pair.
CallTensorfieldComplete(maxlen, W, K) ==
    \E n \in 1..maxlen :
    \E t \in Tensors(n), geodetic \in BOOLEAN, linewidth \in W, kwargs \in K :
        LET p == Const(n, 0)
        IN  Made(Tensorfield(IF geodetic THEN p ELSE NoneV,
                             IF geodetic THEN p ELSE NoneV,
                             t[1], t[2], t[3],
                             IF geodetic THEN NoneV ELSE p,
                             IF geodetic THEN NoneV ELSE p,
                             linewidth, kwargs))

CallImshow(L, Z, K) ==
    \E new \in NewLists(L), z \in Z, kwargs \in K :
        LET h0 == heap \o new
        IN  \E xr \in 1..Len(h0), yr \in 1..Len(h0) :
                /\ UsesNew(Len(heap), Len(new), xr, yr)
                /\ Made(ImshowProjected(z, xr, yr, kwargs, h0))

----------------------------------------------------------------------------
(* Specifications *)

\* Both coordinate pairs; half a pair; no second tensor component; no angle.
FewPresence ==
    {[i \in 1..7 |-> TRUE],
     [i \in 1..7 |-> i # 7],
     [i \in 1..7 |-> i \in {1, 2, 3, 5}],
     [i \in 1..7 |-> i \in {3, 4, 6, 7}]}

\* Every public method, with few argument values each.
Next ==
    \/ ncalls < MaxCalls /\ CallSetXlim({<<0, 10>>})
    \/ ncalls < MaxCalls /\ CallSetYlim({<<0, 5>>})
    \/ ncalls < MaxCalls /\ CallCoastline({<<"None", "None">>, <<"navy", "tan">>}, StyleKw)
    \/ ncalls < MaxCalls /\ CallGrid({<<TRUE, 1, 0, 0>>}, StyleKw)
    \/ ncalls < MaxCalls /\ CallScatter({<<0>>}, StyleKw)
    \/ ncalls < MaxCalls /\ CallQuiver({<<0>>}, {EmptyKw})
    \/ ncalls < MaxCalls /\ CallStreamplotProjected({<<0>>}, StyleKw)
    \/ ncalls < MaxCalls /\ CallStreamplot({<<0>>}, StyleKw)
    \/ ncalls < MaxCalls /\ CallTensorfieldPresence(FewPresence, {EmptyKw})
    \/ ncalls < MaxCalls /\ CallTensorfieldComplete(1, {1}, StyleKw)
    \/ ncalls < MaxCalls /\ CallImshow({<<0, 10>>, <<-5, 3>>}, {"z1"}, {EmptyKw})
Spec == Init /\ [][Next]_vars

\* imshow_projected with limit lists the caller creates or passes again.
NextImshow ==
    \/ ncalls < MaxImages /\ CallImshow(LimLists, {"z1"}, {EmptyKw})
SpecImshow == Init /\ [][NextImshow]_vars

\* grid() with every style combination, between other configuration calls.
NextGrid ==
    \/ ncalls < MaxGridCalls /\ CallGrid(GridArgs, GridKw)
    \/ ncalls < MaxGridCalls /\ CallSetXlim(ViewLims)
    \/ ncalls < MaxGridCalls /\ CallCoastline(ColorArgs, {EmptyKw})
SpecGrid == Init /\ [][NextGrid]_vars

\* tensorfield_symmetric_2d with every argument combination, and the two
\* methods it delegates to.
NextTensor ==
    \/ ncalls < MaxTensorCalls /\ CallTensorfieldPresence(AllPresence, StyleKw)
    \/ ncalls < MaxTensorCalls /\ CallTensorfieldComplete(MaxLen, {1, 2}, StyleKw)
    \/ ncalls < MaxTensorCalls /\ CallStreamplot(Coords, {EmptyKw})
    \/ ncalls < MaxTensorCalls /\ CallStreamplotProjected(Coords, {EmptyKw})
SpecTensor == Init /\ [][NextTensor]_vars

----------------------------------------------------------------------------
(* Properties *)

IsCall(op) == calls[1].op = op

\* Argument positions of tensorfield_symmetric_2d in a call record:
\* <<lon, lat, t1, t2, angle, x, y, linewidth, kwargs>>
Has(a, i) == ~IsNone(a[i])
Geodetic(a) == Has(a, 1) /\ Has(a, 2) /\ ~Has(a, 6) /\ ~Has(a, 7)
Projected(a) == ~Has(a, 1) /\ ~Has(a, 2) /\ Has(a, 6) /\ Has(a, 7)
TensorGiven(a) == Has(a, 3) /\ Has(a, 4) /\ Has(a, 5)

\* C7: streamplot(lon, lat, u, v, **style) fails with the not-implemented
\* error for every input and in every state of the plot object.
C7_StreamplotNotImplemented ==
    IsCall("streamplot") => log = <<EvRaise(NotImplemented)>>

C7_Witness ==
    /\ IsCall("streamplot")
    /\ Raised(log)
    /\ Len(scheduled) >= 2
    /\ gshhg_path # "None"

\* C4: on a plot object constructed without a coastline-data path,
\* coastline() fails with the configuration error whatever its arguments and
\* whatever calls were made before.
C4_CoastlineNeedsPath ==
    (IsCall("coastline") /\ gshhg_path = "None")
        => log = <<EvRaise(RuntimeErrorGshhg)>>

C4_Witness ==
    /\ IsCall("coastline")
    /\ gshhg_path = "None"
    /\ calls[1].args[2] = "navy"
    /\ "color" \in DOMAIN calls[1].args[5]
    /\ Len(scheduled) >= 1
    /\ update_grid
    /\ log = <<EvRaise(RuntimeErrorGshhg)>>

\* C3: tensorfield_symmetric_2d fails with a ValueError unless exactly one
\* complete coordinate pair is passed ((lon, lat) without x and y, or (x, y)
\* without lon and lat), and fails with a ValueError when t1, t2 or angle is
\* missing; with one complete pair the coordinate check raises nothing.
C3_TensorfieldValidation ==
    IsCall("tensorfield_symmetric_2d") =>
        LET a == calls[1].args
            onePair == Geodetic(a) \/ Projected(a)
        IN  /\ ~onePair => log = <<EvRaise(ValueErrorPairs)>>
            /\ (onePair /\ ~TensorGiven(a)) => log = <<EvRaise(ValueErrorTensor)>>
            /\ (onePair /\ TensorGiven(a)) =>
                   \A i \in 1..Len(log) :
                       log[i] \notin {EvRaise(ValueErrorPairs), EvRaise(ValueErrorTensor)}

\* lon, lat and x are passed, y is not; the tensor is complete.
C3_Witness ==
    /\ IsCall("tensorfield_symmetric_2d")
    /\ LET a == calls[1].args
       IN  Has(a, 1) /\ Has(a, 2) /\ Has(a, 6) /\ ~Has(a, 7) /\ TensorGiven(a)
    /\ log = <<EvRaise(ValueErrorPairs)>>

\* C10: a call of coastline(), streamplot() or tensorfield_symmetric_2d()
\* that raises leaves every field of the plot object as it was and does not
\* invoke the schedule callback.
C10_FailedCallChangesNothing ==
    [][(/\ calls'[1].op \in {"coastline", "streamplot", "tensorfield_symmetric_2d"}
        /\ Raised(log'))
       => (UNCHANGED plot /\ Count(log', EvCallback) = 0)]_vars

\* The geodetic route of tensorfield_symmetric_2d has failed in streamplot,
\* on a plot that already holds pending actions and data limits.
C10_Witness ==
    /\ IsCall("tensorfield_symmetric_2d")
    /\ Len(calls) = 2
    /\ calls[2].op = "streamplot"
    /\ Raised(log)
    /\ Len(scheduled) >= 1
    /\ data_xlim # 0

\* The methods that schedule an action, and the kind each one schedules.
SchedulingMethods ==
    {"scatter", "quiver", "streamplot_projected", "imshow_projected", "coastline"}
KindOf(op) ==
    CASE op = "scatter" -> "scatter"
      [] op = "quiver" -> "quiver"
      [] op = "streamplot_projected" -> "streamplot"
      [] op = "imshow_projected" -> "imshow"
      [] op = "coastline" -> "coastline"

\* The scheduling call of a step: the public call, or the one it delegated to.
Innermost(cs) == cs[Len(cs)]

\* Arguments of coastline(level, water_color, land_color, zorder, **kwargs)
\* that go into the payload.
CoastlinePayload(a) == <<a[1], a[4], a[5]>>

AppendsOne(payload(_)) ==
    LET c == Innermost(calls')
    IN  (/\ ncalls' = ncalls + 1
         /\ c.op \in SchedulingMethods
         /\ ~Raised(log'))
        => /\ scheduled' = Append(scheduled, <<KindOf(c.op), FALSE, payload(c)>>)
           /\ Last(log') = EvCallback
           /\ Count(log', EvCallback) = 1

AllArguments(c) == c.args
StoredArguments(c) == IF c.op = "coastline" THEN CoastlinePayload(c.args) ELSE c.args

\* C6 as stated: every successful call of a scheduling method appends one
\* entry <<kind, False, payload>> at the end of the pending list, the payload
\* being the call's arguments, keeps the earlier entries, and invokes the
\* schedule callback once, as its last step.
C6_PayloadIsAllArguments == [][AppendsOne(AllArguments)]_vars

\* C6, amended: as above, the payload being the call's arguments for scatter,
\* quiver, streamplot_projected and imshow_projected (the objects passed),
\* and (level, zorder, style) for coastline, whose water and land colors are
\* stored in the plot's color fields instead.
C6_AppendsOneEntry == [][AppendsOne(StoredArguments)]_vars

C6_Witness ==
    /\ IsCall("coastline")
    /\ ~Raised(log)
    /\ calls[1].args[2] = "navy"
    /\ water_color = "navy"
    /\ Len(scheduled) >= 2
    /\ scheduled[1][1] = "imshow"
    /\ Last(scheduled) = <<"coastline", FALSE, <<"i", 0, calls[1].args[5]>> >>
    /\ Last(log) = EvCallback

\* C8: after grid(b), whatever grid() calls came before, the flag, the
\* spacing constant, the anchor and the style options are those of b alone:
\* the base style defaults overlaid with b's style options, with line width
\* 0.5 when b passes none.
C8_GridReplacedWholesale ==
    IsCall("grid") =>
        LET a  == calls[1].args
            kw == a[5]
            keys == (DOMAIN grid_kwargs_base) \cup (DOMAIN kw) \cup {"linewidth"}
        IN  /\ grid_on = a[1]
            /\ grid_constant = a[2]
            /\ grid_anchor = <<a[3], a[4]>>
            /\ DOMAIN grid_kwargs = keys
            /\ \A k \in keys :
                   grid_kwargs[k] =
                       IF k \in DOMAIN kw THEN kw[k]
                       ELSE IF k = "linewidth" THEN Flt("0.5")
                       ELSE grid_kwargs_base[k]

\* grid(linestyle, ...) was followed by a grid() call without linestyle.
C8_Witness ==
    /\ IsCall("grid")
    /\ Len(grid_prev) = 1
    /\ "linestyle" \in DOMAIN grid_prev[1]
    /\ "linestyle" \notin DOMAIN calls[1].args[5]
    /\ "linestyle" \notin DOMAIN grid_kwargs
    /\ "linewidth" \in DOMAIN grid_kwargs_base

\* The single sample lon=[0], lat=[0], t1=[2], t2=[1], angle=[0].
SampleCall(a) ==
    /\ a[1] = <<0>> /\ a[2] = <<0>> /\ a[3] = <<2>> /\ a[4] = <<1>> /\ a[5] = <<0>>
    /\ IsNone(a[6]) /\ IsNone(a[7])

\* C2 as stated: tensorfield_symmetric_2d with a geodetic pair and a complete
\* tensor returns without error and delegates to streamplot; for the single
\* sample the line width is 0 and the direction (u, v) is (0, 1).
C2_GeodeticCallSucceeds ==
    (IsCall("tensorfield_symmetric_2d") /\ Geodetic(calls[1].args)
        /\ TensorGiven(calls[1].args)) =>
        LET a == calls[1].args
        IN  /\ ~Raised(log)
            /\ Len(calls) = 2
            /\ calls[2].op = "streamplot"
            /\ SampleCall(a) =>
                   /\ calls[2].args[3] = <<"0.0">>
                   /\ calls[2].args[4] = <<"1.0">>
                   /\ Count(log, EvWarn("RuntimeWarning")) = 0

\* C2, amended: such a call passes both validation checks, computes the
\* direction field and delegates to streamplot(lon, lat, u, v, **style),
\* which raises the not-implemented error: the call fails and schedules
\* nothing.  For the single sample (u, v) is (0, 1) and the line-width
\* normalisation divides 0 by 0 (NaN, with numpy's warning), not 0.
C2_GeodeticCallNotImplemented ==
    (IsCall("tensorfield_symmetric_2d") /\ Geodetic(calls[1].args)
        /\ TensorGiven(calls[1].args)) =>
        LET a == calls[1].args
        IN  /\ Len(calls) = 2
            /\ calls[2].op = "streamplot"
            /\ calls[2].args[1] = a[1]
            /\ calls[2].args[2] = a[2]
            /\ Len(calls[2].args[3]) = Len(a[5])
            /\ \A i \in 1..Len(a[5]) :
                   /\ a[5][i] = 0 => calls[2].args[3][i] = "0.0" /\ calls[2].args[4][i] = "1.0"
                   /\ a[5][i] = 90 => calls[2].args[3][i] = "1.0"
            /\ calls[2].args[5] = a[9]
            /\ Last(log) = EvRaise(NotImplemented)
            /\ Count(log, EvAppend("streamplot")) = 0
            /\ Count(log, EvCallback) = 0
            /\ SampleCall(a) =>
                   /\ calls[2].args[3] = <<"0.0">>
                   /\ calls[2].args[4] = <<"1.0">>
                   /\ Count(log, EvWarn("RuntimeWarning")) = 1

C2_Witness ==
    /\ IsCall("tensorfield_symmetric_2d")
    /\ SampleCall(calls[1].args)
    /\ calls[1].args[9] = EmptyKw
    /\ log = <<EvWarn("RuntimeWarning"), EvRaise(NotImplemented)>>

\* A call with one complete coordinate pair, a complete tensor and a color
\* style override.
ColorOverride(a) ==
    /\ Geodetic(a) \/ Projected(a)
    /\ TensorGiven(a)
    /\ "color" \in DOMAIN a[9]

\* C5 as stated: such a call warns, does not raise, and the action it
\* schedules carries the computed color (t1), not the caller's.
C5_ColorOverrideSucceeds ==
    (IsCall("tensorfield_symmetric_2d") /\ ColorOverride(calls[1].args)) =>
        /\ log[1] = EvWarn("UserWarning")
        /\ ~Raised(log)
        /\ Len(scheduled) >= 1
        /\ Last(scheduled)[3][5]["color"] = Arr(calls[1].args[3])

\* C5, amended: such a call warns; with a projected (x, y) pair it does not
\* raise and the action it schedules carries the computed color (t1), not
\* the caller's; with a geodetic (lon, lat) pair it then fails with the
\* not-implemented error of streamplot.
C5_ColorOverrideWarns ==
    (IsCall("tensorfield_symmetric_2d") /\ ColorOverride(calls[1].args)) =>
        LET a == calls[1].args
        IN  /\ log[1] = EvWarn("UserWarning")
            /\ Projected(a) =>
                   /\ ~Raised(log)
                   /\ Last(log) = EvCallback
                   /\ Len(scheduled) >= 1
                   /\ Last(scheduled)[1] = "streamplot"
                   /\ Last(scheduled)[2] = FALSE
                   /\ Last(scheduled)[3][5]["color"] = Arr(a[3])
                   /\ Last(scheduled)[3][5]["color"] # a[9]["color"]
            /\ Geodetic(a) => Last(log) = EvRaise(NotImplemented)

C5_Witness ==
    /\ IsCall("tensorfield_symmetric_2d")
    /\ ColorOverride(calls[1].args)
    /\ Projected(calls[1].args)
    /\ calls[1].args[9]["color"] = Str("red")
    /\ Len(calls[1].args[3]) = 2
    /\ ~Raised(log)
    /\ Last(scheduled)[3][5]["color"] = Arr(calls[1].args[3])

----------------------------------------------------------------------------
(* Properties of imshow_projected *)

\* The running data bounds along one axis: None, or the contents of the
\* list self._data_lim refers to.
Bounds(h, d) == IF d = 0 THEN NoneV ELSE h[d]

Min(a, b) == IF a < b THEN a ELSE b
Max(a, b) == IF a > b THEN a ELSE b

\* The interval covering the bounds so far and one more image.
Cover(b, lim) == IF IsNone(b) THEN lim ELSE <<Min(b[1], lim[1]), Max(b[2], lim[2])>>

\* C1: each imshow_projected call leaves the running data bounds at the
\* rectangle covering the bounds before it and the limits passed in (lower
\* bound the minimum, upper bound the maximum), so that after any sequence
\* of calls they cover exactly the images passed so far.
C1_DataBoundsCoverImages ==
    [][(ncalls' = ncalls + 1 /\ calls'[1].op = "imshow_projected") =>
          /\ Bounds(heap', data_xlim') = Cover(Bounds(heap, data_xlim), calls'[1].vals[1])
          /\ Bounds(heap', data_ylim') = Cover(Bounds(heap, data_ylim), calls'[1].vals[2])]_vars

\* An entry of the pending list with the contents of the lists it refers to.
Contents(e, h) ==
    IF e[1] = "imshow"
    THEN <<e[1], e[2], <<e[3][1], h[e[3][2]], h[e[3][3]], e[3][4]>> >>
    ELSE e

\* C9: no public call changes the payload of an entry already in the
\* pending list: the limits held by an imshow entry (the lists the caller
\* passed) keep the values they had when the entry was appended.
C9_PayloadsNeverChange ==
    [][\A i \in 1..Len(scheduled) :
           Contents(scheduled'[i], heap') = Contents(scheduled[i], heap)]_vars

====
